---- MODULE Spec2Model ----
(***************************************************************************)
(* Remote test execution harness of the RFDK integration tests.            *)
(*                                                                         *)
(*   Spec      the Jest test file deadline_04_workerFleetHttps.test.ts:    *)
(*             discovery of the stack outputs (root beforeAll) and, for    *)
(*             each test case, the hooks and tests that dispatch SSM       *)
(*             commands to the bastion and await them.                     *)
(*   LiveSpec  Spec with the fairness of the test runner and the poller.   *)
(*   SpecBoot  TestingTier.configureBastionUserData and the execution of   *)
(*             the rendered user data script on the bastion at boot.       *)
(*   SpecDiscover  the root beforeAll of the test file over any list of    *)
(*             stack outputs.                                              *)
(*   SpecTier  the CfnOutputs of TestingTier (constructor and              *)
(*             configureWorkerFleetTest) handed to the root beforeAll.     *)
(*                                                                         *)
(* Hooks and tests are scheduled the way the Jest runner (jest-circus)     *)
(* schedules them: the blocks of describe.each run one after the other,    *)
(* a failed beforeAll marks every test below it as failed without running  *)
(* it, beforeAll hooks of nested blocks and afterAll hooks always run.     *)
(***************************************************************************)
EXTENDS Integers, Sequences, FiniteSets, TLC

VARIABLES
  \* ---- the test file (Spec) ----
  describeErr,           \* cloudformation.describeStacks calls back with err
  stackOutput,           \* data.Stacks[0].Outputs: sequence of [key, value]
  bastionId,             \* let bastionId
  renderQueueEndpoints,  \* let renderQueueEndpoints: Array<string>
  secretARNs,            \* let secretARNs: Array<string>
  pc,                    \* position of the runner: [suite, step, phase]
  runs,                  \* command runs in dispatch order
  rootErr,               \* the root beforeAll failed
  suiteErr,              \* suiteErr[id]: a beforeAll of test case id failed
  results,               \* results[id][t]: outcome of test WFS-id-t
  faults,                \* command runs that ended other than nominally
  \* ---- the bastion user data (SpecBoot) ----
  props,                 \* UserDataConfigProps given to configureBastionUserData
  lines,                 \* LinuxUserData.lines
  onExitLines,           \* LinuxUserData.onExitLines
  creationPolicy,        \* cfnOptions.creationPolicy.resourceSignal
  boot,                  \* the boot of the instance: [phase, ip, strict, exitCode, trap]
  status,                \* status[k]: exit status of script line k once executed
  files,                 \* files present under /tmp on the bastion
  signals,               \* cfn-signal notifications sent, in order
  provision,             \* CloudFormation's view of the instance resource
  \* ---- the outputs of the testing tier (SpecTier) ----
  structs,               \* structs: Array<WorkerStruct> given to configureWorkerFleetTest
  cfnOutputs,            \* the CfnOutputs of the stack: sequence of [key, value]
  tier                   \* the life of the stack: none, constructed, configured, deployed

driverVars == <<describeErr, stackOutput, bastionId, renderQueueEndpoints,
                secretARNs, pc, runs, rootErr, suiteErr, results, faults>>
bootVars == <<props, lines, onExitLines, creationPolicy, boot, status, files,
              signals, provision>>
tierVars == <<structs, cfnOutputs, tier>>
vars == <<describeErr, stackOutput, bastionId, renderQueueEndpoints,
          secretARNs, pc, runs, rootErr, suiteErr, results, faults,
          props, lines, onExitLines, creationPolicy, boot, status, files,
          signals, provision, structs, cfnOutputs, tier>>

(***************************************************************************)
(* Bounds                                                                  *)
(***************************************************************************)
\* Command runs of one execution that may end other than Success with the
\* expected output.
MaxFaults == 1

\* Outputs of the stack in one query of describeStacks (SpecDiscover).
MaxOutputs == 3

\* Worker structs given to configureWorkerFleetTest (SpecTier).
MaxStructs == 2

(***************************************************************************)
(* Values                                                                  *)
(***************************************************************************)
\* JavaScript's undefined; it prints as 'undefined' when concatenated.
Undef == "undefined"

\* AWS.config.region
Region == "us-west-2"

Digits == {"0", "1", "2", "3", "4", "5", "6", "7", "8", "9"}

\* +testId for a one-character digit string
DigitValue(d) ==
  CASE d = "0" -> 0 [] d = "1" -> 1 [] d = "2" -> 2 [] d = "3" -> 3
    [] d = "4" -> 4 [] d = "5" -> 5 [] d = "6" -> 6 [] d = "7" -> 7
    [] d = "8" -> 8 [] d = "9" -> 9

\* Array indices a single captured digit can address.
Indices == 0 .. 9

\* const testCases: the ids of the two test cases
testCases == <<1, 2>>

SuiteIds == {testCases[i] : i \in 1 .. Len(testCases)}

(***************************************************************************)
(* Output keys.  A key is a sequence of atoms: the literal texts the       *)
(* patterns look for, single digits, and other characters.                 *)
(***************************************************************************)
\* The first position at which atom 'lit' occurs in key, 0 if none.
FirstAt(key, lit) ==
  IF \E i \in 1 .. Len(key) : key[i] = lit
    THEN CHOOSE i \in 1 .. Len(key) :
           key[i] = lit /\ \A j \in 1 .. (i - 1) : key[j] # lit
    ELSE 0

\* The first position at which 'lit' is directly followed by a digit, 0 if none.
FirstDigitAfter(key, lit) ==
  LET hits == {i \in 1 .. (Len(key) - 1) : key[i] = lit /\ key[i + 1] \in Digits}
  IN IF hits = {} THEN 0 ELSE CHOOSE i \in hits : \A j \in hits : i <= j

\* const bastionRegex = /bastionId/
bastionRegexTest(key) == FirstAt(key, "bastionId") # 0

\* const rqRegex = /renderQueueEndpointWFS(\d)/
rqRegexTest(key) == FirstDigitAfter(key, "renderQueueEndpointWFS") # 0

\* rqRegex.exec(outputKey)![1]
rqRegexExec(key) == key[FirstDigitAfter(key, "renderQueueEndpointWFS") + 1]

\* const certRegex = /CertSecretARNWFS(\d)/
certRegexTest(key) == FirstDigitAfter(key, "CertSecretARNWFS") # 0

\* certRegex.exec(outputKey)![1]
certRegexExec(key) == key[FirstDigitAfter(key, "CertSecretARNWFS") + 1]

\* Variant: a key no pattern matches is taken for the bastion's id instead
\* of being skipped by the default branch.
ClassifyOutputHostByDefault(d, output) ==
  CASE bastionRegexTest(output.key) ->
         [d EXCEPT !.bastionId = output.value]
    [] ~bastionRegexTest(output.key) /\ rqRegexTest(output.key) ->
         [d EXCEPT !.rq[DigitValue(rqRegexExec(output.key))] = output.value]
    [] ~bastionRegexTest(output.key) /\ ~rqRegexTest(output.key)
         /\ certRegexTest(output.key) ->
         [d EXCEPT !.cert[DigitValue(certRegexExec(output.key))] = output.value]
    [] OTHER -> [d EXCEPT !.bastionId = output.value]

\* One iteration of stackOutput.forEach: the switch(true) on the key.
ClassifyOutput(d, output) ==
  CASE bastionRegexTest(output.key) ->
         [d EXCEPT !.bastionId = output.value]
    [] ~bastionRegexTest(output.key) /\ rqRegexTest(output.key) ->
         [d EXCEPT !.rq[DigitValue(rqRegexExec(output.key))] = output.value]
    [] ~bastionRegexTest(output.key) /\ ~rqRegexTest(output.key)
         /\ certRegexTest(output.key) ->
         [d EXCEPT !.cert[DigitValue(certRegexExec(output.key))] = output.value]
    [] OTHER -> d

RECURSIVE ForEachOutput(_, _)
ForEachOutput(d, outputs) ==
  IF outputs = <<>> THEN d
  ELSE ForEachOutput(ClassifyOutput(d, Head(outputs)), Tail(outputs))

\* The module-level lets before the root beforeAll ran.
EmptyDirectory ==
  [bastionId |-> Undef,
   rq |-> [i \in Indices |-> Undef],
   cert |-> [i \in Indices |-> Undef]]

\* The outputs a deployed testing stack of two test cases produces.
FullOutputs ==
  << [key |-> <<"bastionId">>, value |-> "i-1"],
     [key |-> <<"renderQueueEndpointWFS", "1">>, value |-> "rq1.local:4433"],
     [key |-> <<"CertSecretARNWFS", "1">>, value |-> "arn:secret:1"],
     [key |-> <<"renderQueueEndpointWFS", "2">>, value |-> "rq2.local:4433"],
     [key |-> <<"CertSecretARNWFS", "2">>, value |-> "arn:secret:2"] >>

RECURSIVE SubSeqs(_)
\* Every subsequence of s (some outputs missing, the order kept).
SubSeqs(s) ==
  IF s = <<>> THEN {<<>>}
  ELSE LET rest == SubSeqs(Tail(s))
       IN rest \cup {<<Head(s)>> \o r : r \in rest}

(***************************************************************************)
(* Commands and command runs                                               *)
(***************************************************************************)
Sh(text) == [script |-> text, args |-> <<>>]

\* The first three entries of every Parameters.commands list.
CommandPrefix == <<Sh("sudo -i"), Sh("su - ec2-user >/dev/null"), Sh("cd ~ec2-user")>>

\* Variant: configure-deadline.sh registered after the tests instead of in
\* the nested block's beforeAll.
SuiteStepsSetupLast ==
  <<"fetch-cert", "WFS-1", "WFS-2", "WFS-3", "WFS-4", "configure-deadline",
    "cleanup-cert">>

\* The hooks and tests of one describe.each block, in the order the runner
\* takes them: beforeAll, the nested block's beforeAll, its tests, afterAll.
SuiteSteps ==
  <<"fetch-cert", "configure-deadline", "WFS-1", "WFS-2", "WFS-3", "WFS-4",
    "cleanup-cert">>

SetupSteps == {"fetch-cert", "configure-deadline"}
TestSteps == {"WFS-1", "WFS-2", "WFS-3", "WFS-4"}
TeardownSteps == {"cleanup-cert"}

\* const setConfigs
setConfigs == [s \in {"WFS-3", "WFS-4"} |->
  IF s = "WFS-3" THEN <<"group", "-group testgroup">>
                 ELSE <<"pool", "-pool testpool">>]

\* The last entry of Parameters.commands of each dispatch of test case id.
StepScript(step, id) ==
  CASE step = "fetch-cert" ->
         [script |-> "./utilScripts/fetch-cert.sh", args |-> <<Region, secretARNs[id]>>]
    [] step = "configure-deadline" ->
         [script |-> "./utilScripts/configure-deadline.sh",
          args |-> <<renderQueueEndpoints[id]>>]
    [] step = "WFS-1" -> Sh("./testScripts/WFS-report-workers.sh")
    [] step = "WFS-2" -> Sh("./testScripts/WFS-report-worker-sets.sh")
    [] step \in {"WFS-3", "WFS-4"} ->
         [script |-> "./testScripts/WFS-submit-jobs-to-sets.sh", args |-> setConfigs[step]]
    [] step = "cleanup-cert" -> Sh("./utilScripts/cleanup-cert.sh")

TerminalStates == {"Success", "Failed", "TimedOut"}

\* dispatch(hostId, commands): the run is Pending on return; the substrate
\* rejects a request that names no known host (DispatchRejected).
DispatchState(host) == IF host = Undef THEN "Rejected" ELSE "Pending"

\* awaitSsmCommand(bastionId, params), up to the dispatch
NewRun(id, step) ==
  [suite |-> id, step |-> step, host |-> bastionId,
   commands |-> CommandPrefix \o <<StepScript(step, id)>>,
   state |-> DispatchState(bastionId), stdout |-> <<>>]

\* The poller returns only once the run left Pending.
PollerReturned(run) == run.state # "Pending"

\* awaitSsmCommand resolves with the output on Success and rejects otherwise.
AwaitResolves(run) == run.state = "Success"

(***************************************************************************)
(* Standard output of the test scripts, as sequences of atoms, and the     *)
(* expectations of the tests.                                              *)
(***************************************************************************)
Stdouts ==
  { <<"ip-", "10-0-0-1", "\n">>,
    <<"testpool", "\n", "testgroup", "\n", "testregion", "\n">>,
    <<"1", "\n">>,
    <<>> }

\* pattern occurs in out as a contiguous run of atoms
Occurs(pattern, out) ==
  \E i \in 0 .. (Len(out) - Len(pattern)) :
    \A k \in 1 .. Len(pattern) : out[i + k] = pattern[k]

RECURSIVE Trim(_)
\* The unary + ignores leading and trailing white space.
Trim(out) ==
  IF out = <<>> THEN out
  ELSE IF Head(out) = "\n" THEN Trim(Tail(out))
  ELSE IF out[Len(out)] = "\n" THEN Trim(SubSeq(out, 1, Len(out) - 1))
  ELSE out

\* +responseOutput is the number n
NumberIs(out, n) ==
  LET t == Trim(out)
  IN IF t = <<>> THEN n = 0
     ELSE Len(t) = 1 /\ t[1] \in Digits /\ DigitValue(t[1]) = n

\* The expect(...) of each test.
Expect(step, out) ==
  CASE step = "WFS-1" -> Occurs(<<"ip-">>, out)
    [] step = "WFS-2" ->
         Occurs(<<"testpool", "\n", "testgroup", "\n", "testregion">>, out)
    [] step \in {"WFS-3", "WFS-4"} -> NumberIs(out, 1)
    [] OTHER -> TRUE

\* The outputs a run of the step may end Success with.
SuccessOutputs(step) == IF step \in TestSteps THEN Stdouts ELSE {<<>>}

\* A run ended as the test expects it to end.
Nominal(step, state, out) == state = "Success" /\ Expect(step, out)

(***************************************************************************)
(* The runner                                                              *)
(***************************************************************************)
CurrentId == testCases[pc.suite]
CurrentStep == SuiteSteps[pc.step]

\* The position after the current hook or test.
Advance ==
  IF pc.step < Len(SuiteSteps)
    THEN [pc EXCEPT !.step = @ + 1, !.phase = "start"]
  ELSE IF pc.suite < Len(testCases)
    THEN [suite |-> pc.suite + 1, step |-> 1, phase |-> "start"]
  ELSE [suite |-> pc.suite, step |-> pc.step, phase |-> "done"]

At(step) == pc.phase = "start" /\ CurrentStep = step

\* The run the current hook or test awaits: the one it dispatched.
Awaited ==
  CHOOSE i \in 1 .. Len(runs) :
    runs[i].suite = CurrentId /\ runs[i].step = CurrentStep

\* Variant: the hooks and tests call awaitSsmCommand without returning its
\* promise.
HookIgnoresPromise == FALSE

\* Every hook and every test returns the promise of awaitSsmCommand, so the
\* runner waits for it and takes its rejection as the failure of the hook.

HookAwaits == TRUE

\* The runner may go on past the hook or test that dispatched run.
Returned(run) == HookAwaits => PollerReturned(run)

\* A hook passes iff the promise it returned resolved.
HookPasses(run) == HookAwaits => AwaitResolves(run)

\* Variant: the error of a beforeAll reaches the tests of every block.
TestHasErrorsOfAnySuite(id) == rootErr \/ \E o \in SuiteIds : suiteErr[o]

\* Variant: the beforeAll hooks of a block swallow their errors.
TestHasErrorsOfRootOnly(id) == rootErr

\* Errors a test carries before it runs: those of the failed beforeAll hooks
\* of the blocks it is in.  A test with errors is failed without being run.
TestHasErrors(id) == rootErr \/ suiteErr[id]

\* Variant: the first failed test stops the tests after it.
AbortsAfterFailedTest(id) ==
  TestHasErrors(id) \/ \E t \in TestSteps : results[id][t] = "failed"

\* A failed test does not stop the tests after it.
TestSkipped(id) == TestHasErrors(id)

\* Variant: the cleanup runs as a last step only when nothing failed before.
AfterAllRunsIfNoErrors(id) == ~TestHasErrors(id)

\* afterAll runs whatever the hooks and tests before it did.

AfterAllRuns(id) == TRUE

Dispatch(step) ==
  /\ runs' = Append(runs, NewRun(CurrentId, step))
  /\ pc' = [pc EXCEPT !.phase = "await"]

\* beforeAll: cloudformation.describeStacks and the classification of the outputs
BeforeAllDescribeStacks ==
  /\ pc.phase = "root"
  /\ IF describeErr
       THEN /\ rootErr' = TRUE
            /\ UNCHANGED <<bastionId, renderQueueEndpoints, secretARNs>>
       ELSE LET d == ForEachOutput(EmptyDirectory, stackOutput)
            IN /\ bastionId' = d.bastionId
               /\ renderQueueEndpoints' = d.rq
               /\ secretARNs' = d.cert
               /\ UNCHANGED rootErr
  /\ pc' = [suite |-> 1, step |-> 1, phase |-> "start"]
  /\ UNCHANGED <<describeErr, stackOutput, runs, suiteErr, results, faults>>
  /\ UNCHANGED bootVars
  /\ UNCHANGED tierVars

\* beforeAll of the describe.each block: fetch-cert.sh, or throw
BeforeAllFetchCert ==
  /\ At("fetch-cert")
  /\ IF secretARNs[CurrentId] # Undef
       THEN /\ Dispatch("fetch-cert")
            /\ UNCHANGED suiteErr
       ELSE /\ suiteErr' = [suiteErr EXCEPT ![CurrentId] = TRUE]
            /\ pc' = Advance
            /\ UNCHANGED runs
  /\ UNCHANGED <<describeErr, stackOutput, bastionId, renderQueueEndpoints,
                 secretARNs, rootErr, results, faults>>
  /\ UNCHANGED bootVars
  /\ UNCHANGED tierVars

\* beforeAll of 'Worker node tests': configure-deadline.sh
BeforeAllConfigureDeadline ==
  /\ At("configure-deadline")
  /\ Dispatch("configure-deadline")
  /\ UNCHANGED <<describeErr, stackOutput, bastionId, renderQueueEndpoints,
                 secretARNs, rootErr, suiteErr, results, faults>>
  /\ UNCHANGED bootVars
  /\ UNCHANGED tierVars

\* test WFS-id-1 .. WFS-id-4, run: dispatch of the test script
TestDispatches ==
  /\ pc.phase = "start"
  /\ CurrentStep \in TestSteps
  /\ ~TestSkipped(CurrentId)
  /\ Dispatch(CurrentStep)
  /\ UNCHANGED <<describeErr, stackOutput, bastionId, renderQueueEndpoints,
                 secretARNs, rootErr, suiteErr, results, faults>>
  /\ UNCHANGED bootVars
  /\ UNCHANGED tierVars

\* test WFS-id-1 .. WFS-id-4, not run: it carries the error of a beforeAll
TestFailsUnrun ==
  /\ pc.phase = "start"
  /\ CurrentStep \in TestSteps
  /\ TestSkipped(CurrentId)
  /\ results' = [results EXCEPT ![CurrentId][CurrentStep] = "failed"]
  /\ pc' = Advance
  /\ UNCHANGED <<describeErr, stackOutput, bastionId, renderQueueEndpoints,
                 secretARNs, runs, rootErr, suiteErr, faults>>
  /\ UNCHANGED bootVars
  /\ UNCHANGED tierVars

\* afterAll of the describe.each block: cleanup-cert.sh
AfterAllCleanupCert ==
  /\ At("cleanup-cert")
  /\ IF AfterAllRuns(CurrentId)
       THEN Dispatch("cleanup-cert")
       ELSE pc' = Advance /\ UNCHANGED runs
  /\ UNCHANGED <<describeErr, stackOutput, bastionId, renderQueueEndpoints,
                 secretARNs, rootErr, suiteErr, results, faults>>
  /\ UNCHANGED bootVars
  /\ UNCHANGED tierVars

\* The substrate ends a Pending run, or the poller gives up on it.
CommandRunTerminates ==
  /\ \E i \in 1 .. Len(runs) :
       /\ runs[i].state = "Pending"
       /\ \E st \in TerminalStates :
            \E out \in IF st = "Success" THEN SuccessOutputs(runs[i].step) ELSE {<<>>} :
              /\ Nominal(runs[i].step, st, out) \/ faults < MaxFaults
              /\ faults' = IF Nominal(runs[i].step, st, out) THEN faults ELSE faults + 1
              /\ runs' = [runs EXCEPT ![i].state = st, ![i].stdout = out]
  /\ UNCHANGED <<describeErr, stackOutput, bastionId, renderQueueEndpoints,
                 secretARNs, pc, rootErr, suiteErr, results>>
  /\ UNCHANGED bootVars
  /\ UNCHANGED tierVars

\* A beforeAll or afterAll hook's promise settles.
HookSettles ==
  /\ pc.phase = "await"
  /\ CurrentStep \notin TestSteps
  /\ Returned(runs[Awaited])
  /\ suiteErr' =
       IF CurrentStep \in SetupSteps /\ ~HookPasses(runs[Awaited])
         THEN [suiteErr EXCEPT ![CurrentId] = TRUE]
         ELSE suiteErr
  /\ results' = [results EXCEPT ![CurrentId][CurrentStep] =
                   IF HookPasses(runs[Awaited]) THEN "passed" ELSE "failed"]
  /\ pc' = Advance
  /\ UNCHANGED <<describeErr, stackOutput, bastionId, renderQueueEndpoints,
                 secretARNs, runs, rootErr, faults>>
  /\ UNCHANGED bootVars
  /\ UNCHANGED tierVars

\* A test's promise settles: .then(response => expect(response.output)...)
TestSettles ==
  /\ pc.phase = "await"
  /\ CurrentStep \in TestSteps
  /\ Returned(runs[Awaited])
  /\ results' = [results EXCEPT ![CurrentId][CurrentStep] =
                   IF HookPasses(runs[Awaited])
                      /\ Expect(CurrentStep, runs[Awaited].stdout)
                     THEN "passed" ELSE "failed"]
  /\ pc' = Advance
  /\ UNCHANGED <<describeErr, stackOutput, bastionId, renderQueueEndpoints,
                 secretARNs, runs, rootErr, suiteErr, faults>>
  /\ UNCHANGED bootVars
  /\ UNCHANGED tierVars

(***************************************************************************)
(* Spec: the test file                                                     *)
(***************************************************************************)
AllSteps == {SuiteSteps[k] : k \in 1 .. Len(SuiteSteps)}

\* Nothing was configured and no instance boots.
\* No stack of the testing tier is built.
TierIdle ==
  /\ structs = <<>>
  /\ cfnOutputs = <<>>
  /\ tier = "none"

BootIdle ==
  /\ TierIdle
  /\ props = [installDeadlineClient |-> FALSE, fetchDocdbCert |-> FALSE]
  /\ lines = <<>>
  /\ onExitLines = <<>>
  /\ creationPolicy = [count |-> 0, timeoutMinutes |-> 0]
  /\ boot = [phase |-> "off", ip |-> 0, strict |-> FALSE, exitCode |-> 0,
             trap |-> "none"]
  /\ status = <<>>
  /\ files = {}
  /\ signals = <<>>
  /\ provision = "none"

Init ==
  /\ \/ describeErr = TRUE /\ stackOutput = <<>>
     \/ describeErr = FALSE /\ stackOutput \in SubSeqs(FullOutputs)
  /\ bastionId = EmptyDirectory.bastionId
  /\ renderQueueEndpoints = EmptyDirectory.rq
  /\ secretARNs = EmptyDirectory.cert
  /\ pc = [suite |-> 1, step |-> 1, phase |-> "root"]
  /\ runs = <<>>
  /\ rootErr = FALSE
  /\ suiteErr = [id \in SuiteIds |-> FALSE]
  /\ results = [id \in SuiteIds |-> [s \in AllSteps |-> "none"]]
  /\ faults = 0
  /\ BootIdle

Next ==
  \/ BeforeAllDescribeStacks
  \/ BeforeAllFetchCert
  \/ BeforeAllConfigureDeadline
  \/ TestDispatches
  \/ TestFailsUnrun
  \/ AfterAllCleanupCert
  \/ CommandRunTerminates
  \/ HookSettles
  \/ TestSettles

Spec == Init /\ [][Next]_vars

\* The runner goes on to the next hook or test whenever it can, and every
\* Pending run ends: the poller gives up after its timeout at the latest.
LiveSpec == Spec /\ WF_vars(Next)

(***************************************************************************)
(* Properties of the test file                                             *)
(***************************************************************************)
\* The runs dispatched for test case id by the given steps.
RunsOf(id, steps) ==
  {i \in 1 .. Len(runs) : runs[i].suite = id /\ runs[i].step \in steps}

SuiteIndex(id) == CHOOSE i \in 1 .. Len(testCases) : testCases[i] = id

\* The order of the dispatches of one suite, as the claims state it.
ClaimedOrder ==
  <<"fetch-cert", "configure-deadline", "WFS-1", "WFS-2", "WFS-3", "WFS-4",
    "cleanup-cert">>

Rank(step) == CHOOSE k \in 1 .. Len(ClaimedOrder) : ClaimedOrder[k] = step

\* setup, assertion or teardown
Kind(step) ==
  IF step \in SetupSteps THEN 1 ELSE IF step \in TestSteps THEN 2 ELSE 3

\* The runner is past the k-th hook or test of test case id.
Past(id, k) ==
  \/ pc.phase = "done"
  \/ /\ pc.phase \in {"start", "await"}
     /\ \/ pc.suite > SuiteIndex(id)
        \/ pc.suite = SuiteIndex(id) /\ pc.step > k

\* Test case id left NotStarted: its first hook was entered.
Started(id) ==
  \/ Past(id, 1)
  \/ pc.phase = "await" /\ pc.suite = SuiteIndex(id)

\* The beforeAll of test case id threw for want of a secret ARN.
SetupThrew(id) == Past(id, 1) /\ RunsOf(id, {"fetch-cert"}) = {}

\* A setup run of test case id ended Failed or TimedOut.
SetupRunFailed(id) ==
  \E j \in RunsOf(id, SetupSteps) : runs[j].state \in {"Failed", "TimedOut"}

\* Both setup commands of test case id ended Success.
SetupSucceeded(id) ==
  \A s \in SetupSteps : \E j \in RunsOf(id, {s}) : runs[j].state = "Success"

\* C1: once a setup run of a suite ended Failed or TimedOut, or its setup
\* threw before dispatching, no assertion command of that suite is dispatched
\* afterwards, and no setup command of the suite is dispatched a second time.
C1_FailedSetupStopsAssertions ==
  \A id \in SuiteIds :
    /\ \A j \in RunsOf(id, SetupSteps) :
         runs[j].state \in {"Failed", "TimedOut"} =>
           \A i \in RunsOf(id, TestSteps) : i < j
    /\ SetupThrew(id) => RunsOf(id, TestSteps) = {}
    /\ SetupThrew(id) \/ SetupRunFailed(id) =>
         \A s \in SetupSteps : Cardinality(RunsOf(id, {s})) <= 1

\* One suite threw in its setup, the other had a setup run that Failed, and
\* the whole file has run.
C1_Witness ==
  /\ pc.phase = "done"
  /\ \E id \in SuiteIds : SetupThrew(id) /\ bastionId # Undef
  /\ \E id \in SuiteIds :
       \E j \in RunsOf(id, SetupSteps) : runs[j].state = "Failed"

\* C2: for every suite that left NotStarted the teardown dispatch
\* (cleanup-cert.sh) is eventually issued, and it is never issued twice:
\* whether the assertions passed, failed their match, ended Failed or
\* TimedOut, or the setup failed or threw.
C2_TeardownAlwaysIssuedOnce ==
  \A id \in SuiteIds :
    /\ Started(id) ~> (Cardinality(RunsOf(id, {"cleanup-cert"})) = 1)
    /\ [](Cardinality(RunsOf(id, {"cleanup-cert"})) <= 1)

\* Teardown was dispatched for a suite whose setup threw and for a suite one
\* of whose assertions failed.
C2_Witness ==
  /\ \E id \in SuiteIds :
       /\ SetupThrew(id) /\ bastionId # Undef
       /\ RunsOf(id, {"cleanup-cert"}) # {}
  /\ \E id \in SuiteIds :
       /\ \E i \in RunsOf(id, TestSteps) : runs[i].state = "TimedOut"
       /\ \E t \in TestSteps : results[id][t] = "failed"
       /\ RunsOf(id, {"cleanup-cert"}) # {}

\* C3: within one suite at most one command run is Pending, the dispatches
\* come in the order fetch-cert, configure-deadline, the assertions,
\* cleanup-cert, and a run is dispatched only after every earlier run of the
\* suite left Pending.
C3_OnePendingRunPerSuite ==
  \A id \in SuiteIds :
    /\ Cardinality({i \in RunsOf(id, AllSteps) : runs[i].state = "Pending"}) <= 1
    /\ \A i, j \in RunsOf(id, AllSteps) :
         i < j => /\ runs[i].state # "Pending"
                  /\ Rank(runs[i].step) < Rank(runs[j].step)
    /\ \A i \in RunsOf(id, AllSteps) :
         runs[i].host # Undef => runs[i].state \in TerminalStates \cup {"Pending"}

\* The teardown of a suite is Pending after its six earlier runs ended, one
\* of them TimedOut.
C3_Witness ==
  \E id \in SuiteIds :
    /\ \E i \in RunsOf(id, {"cleanup-cert"}) : runs[i].state = "Pending"
    /\ Cardinality(RunsOf(id, AllSteps)) = Len(ClaimedOrder)
    /\ \E i \in RunsOf(id, TestSteps) : runs[i].state = "TimedOut"

\* C4: in a suite whose setup succeeded every assertion WFS-id-1 .. WFS-id-4
\* is dispatched once and gets its own result, whatever the others did: a
\* mismatch is recorded as failed and the later assertions are still
\* dispatched.
C4_AssertionsIndependent ==
  \A id \in SuiteIds : \A t \in TestSteps :
    SetupSucceeded(id) /\ Past(id, Rank(t)) =>
      /\ Cardinality(RunsOf(id, {t})) = 1
      /\ \A i \in RunsOf(id, {t}) :
           results[id][t] =
             IF runs[i].state = "Success" /\ Expect(t, runs[i].stdout)
               THEN "passed" ELSE "failed"

\* WFS-id-1 ended Success with an output that does not match, is recorded as
\* failed, and the three assertions after it were dispatched and passed.
C4_Witness ==
  \E id \in SuiteIds :
    /\ SetupSucceeded(id)
    /\ Past(id, Rank("WFS-4"))
    /\ \E i \in RunsOf(id, {"WFS-1"}) :
         runs[i].state = "Success" /\ ~Expect("WFS-1", runs[i].stdout)
    /\ results[id]["WFS-1"] = "failed"
    /\ \A t \in TestSteps \ {"WFS-1"} :
         RunsOf(id, {t}) # {} /\ results[id][t] = "passed"

\* Something of test case id failed: a hook, a test, or its teardown.
SuiteFailed(id) ==
  suiteErr[id] \/ \E s \in AllSteps : results[id][s] = "failed"

\* Test case id performed its own setup, assertions and teardown, as far as
\* its own outcomes allow.
RanOwnSteps(id) ==
  /\ (RunsOf(id, {"fetch-cert"}) # {}) = (secretARNs[id] # Undef)
  /\ Cardinality(RunsOf(id, {"configure-deadline"})) = 1
  /\ SetupSucceeded(id) => \A t \in TestSteps : Cardinality(RunsOf(id, {t})) = 1
  /\ Cardinality(RunsOf(id, {"cleanup-cert"})) = 1

\* C5: a failure within one suite never keeps the other suite from running
\* its own setup, assertions and teardown.
C5_SuiteFailureConfined ==
  \A id \in SuiteIds : \A other \in SuiteIds \ {id} :
    pc.phase = "done" /\ SuiteFailed(other) => RanOwnSteps(id)

\* The first suite's fetch-cert Failed; the second suite's setup succeeded
\* and its four assertions were dispatched.
C5_Witness ==
  /\ pc.phase = "done"
  /\ \E i \in RunsOf(testCases[1], {"fetch-cert"}) : runs[i].state = "Failed"
  /\ SetupSucceeded(testCases[2])
  /\ \A t \in TestSteps : results[testCases[2]][t] = "passed"
  /\ RunsOf(testCases[2], {"cleanup-cert"}) # {}

\* C6: with both suites dispatching to the same host, the dispatches of each
\* suite taken alone are ordered setup, then assertions, then teardown.
C6_PerSuiteOrder ==
  (\A i, j \in 1 .. Len(runs) : runs[i].host = runs[j].host) =>
    \A id \in SuiteIds : \A i, j \in RunsOf(id, AllSteps) :
      i < j => Kind(runs[i].step) <= Kind(runs[j].step)

\* Both suites dispatched setup, assertions and teardown to one known host.
C6_Witness ==
  /\ bastionId # Undef
  /\ \A i \in 1 .. Len(runs) : runs[i].host = bastionId
  /\ \A id \in SuiteIds : \A s \in AllSteps : RunsOf(id, {s}) # {}

(***************************************************************************)
(* The bastion's user data: TestingTier.configureBastionUserData           *)
(***************************************************************************)
\* A line of the script: an operation and the file or asset it names.
Cmd(op, arg) == [op |-> op, arg |-> arg]

\* userData.addS3DownloadCommand({bucket, bucketKey}): adds the two lines
\* that fetch the asset to the user data and returns the local path.  The
\* local path /tmp/<bucketKey> is named by the asset.
S3DownloadLines(asset) ==
  <<Cmd("mkdir -p $(dirname)", asset), Cmd("aws s3 cp", asset)>>

\* The S3 download lines configureBastionUserData adds while it runs, in the
\* order of its calls of addS3DownloadCommand.
S3Downloads(p) ==
  S3DownloadLines("SetupScripts")
  \o (IF p.installDeadlineClient THEN S3DownloadLines("ClientInstaller") ELSE <<>>)
  \o S3DownloadLines("UtilScripts")
  \o S3DownloadLines("TestingScripts")

Preamble ==
  <<Cmd("set -xeou pipefail", ""), Cmd("TMPDIR=$(mktemp -d)", ""),
    Cmd("cd ${TMPDIR}", "")>>

SetupCommands ==
  <<Cmd("unzip", "SetupScripts"), Cmd("chmod +x *.sh", ""),
    Cmd("./install_jq.sh", "")>>

ClientCommands(p) ==
  IF p.installDeadlineClient
    THEN <<Cmd("cp", "ClientInstaller"), Cmd("chmod +x *.run", ""),
           Cmd("./install_deadline_client.sh", ""), Cmd("rm -f", "ClientInstaller")>>
    ELSE <<>>

UtilCommands ==
  <<Cmd("cd ~ec2-user", ""), Cmd("mkdir -p utilScripts", ""),
    Cmd("cd utilScripts", ""), Cmd("unzip", "UtilScripts"),
    Cmd("chmod +x *.sh", ""), Cmd("rm -f", "UtilScripts")>>

TestsCommands ==
  <<Cmd("cd ~ec2-user", ""), Cmd("mkdir -p testScripts", ""),
    Cmd("cd testScripts", ""), Cmd("unzip", "TestingScripts"),
    Cmd("chmod +x *.sh", ""), Cmd("rm -f", "TestingScripts")>>

\* Variant: the trust bundle fetched under the wrong flag.
TrustBundleCommandsForClient(p) ==
  IF p.installDeadlineClient
    THEN <<Cmd("cd ~ec2-user", ""), Cmd("mkdir -p testScripts", ""),
           Cmd("cd testScripts", ""), Cmd("wget", "rds-combined-ca-bundle.pem")>>
    ELSE <<>>

\* if (props.fetchDocdbCert): the DocDB CA bundle into testScripts
TrustBundleCommands(p) ==
  IF p.fetchDocdbCert
    THEN <<Cmd("cd ~ec2-user", ""), Cmd("mkdir -p testScripts", ""),
           Cmd("cd testScripts", ""), Cmd("wget", "rds-combined-ca-bundle.pem")>>
    ELSE <<>>

FinalCommands ==
  <<Cmd("cd ~ec2-user", ""), Cmd("chown ec2-user.ec2-user -R *", ""),
    Cmd("rm -rf ${TMPDIR}", "")>>

\* Variant: the ownership fix-up and the removal of the scratch directory
\* pushed before the trust bundle is fetched.
userDataCommandsChownEarly(p) ==
  Preamble
  \o SetupCommands
  \o ClientCommands(p)
  \o <<Cmd("rm -f", "SetupScripts")>>
  \o UtilCommands
  \o TestsCommands
  \o FinalCommands
  \o TrustBundleCommands(p)

\* const userDataCommands, as it is when handed to userData.addCommands
userDataCommands(p) ==
  Preamble
  \o SetupCommands
  \o ClientCommands(p)
  \o <<Cmd("rm -f", "SetupScripts")>>
  \o UtilCommands
  \o TestsCommands
  \o TrustBundleCommands(p)
  \o FinalCommands

\* userData.addSignalOnExitCommand: cfn-signal -e $exitCode in the exit trap
SignalOnExit == Cmd("cfn-signal -e $exitCode", "")

\* The three configurations the tier uses, and the fourth.
BootConfigs ==
  [installDeadlineClient : BOOLEAN, fetchDocdbCert : BOOLEAN]

\* private configureBastionUserData(props)
ConfigureBastionUserData ==
  /\ boot.phase = "unconfigured"
  /\ creationPolicy' = [count |-> 1, timeoutMinutes |-> 5]
  /\ lines' = lines \o S3Downloads(props) \o userDataCommands(props)
  /\ onExitLines' = Append(onExitLines, SignalOnExit)
  /\ boot' = [boot EXCEPT !.phase = "configured"]
  /\ UNCHANGED <<props, status, files, signals, provision>>
  /\ UNCHANGED driverVars
  /\ UNCHANGED tierVars

(***************************************************************************)
(* The boot of the bastion: the rendered script runs line by line, the     *)
(* exit trap runs when the shell exits.                                    *)
(***************************************************************************)
\* The stack is deployed: the instance starts and CloudFormation waits for
\* the resource signal.
InstanceLaunches ==
  /\ boot.phase = "configured"
  /\ boot' = [boot EXCEPT !.phase = "running", !.ip = 1]
  /\ provision' = "waiting"
  /\ UNCHANGED <<props, lines, onExitLines, creationPolicy, status, files, signals>>
  /\ UNCHANGED driverVars
  /\ UNCHANGED tierVars

\* The exit statuses line c can end with, given the files present.
Outcomes(c) ==
  IF c.op = "set -xeou pipefail" THEN {"ok"}
  ELSE IF c.op \in {"unzip", "cp"} /\ c.arg \notin files THEN {"failed"}
  ELSE {"ok", "failed"}

\* The files under /tmp after line c ended with exit status st.
FilesAfter(c, st) ==
  IF c.op = "aws s3 cp" /\ st = "ok" THEN files \cup {c.arg}
  ELSE IF c.op = "rm -f" /\ st = "ok" THEN files \ {c.arg}
  ELSE files

\* The shell runs the next line of the script.
BootRunsLine ==
  /\ boot.phase = "running"
  /\ boot.ip <= Len(lines)
  /\ LET c == lines[boot.ip]
     IN \E st \in Outcomes(c) :
          /\ status' = Append(status, st)
          /\ files' = FilesAfter(c, st)
          /\ boot' =
               IF st = "failed" /\ boot.strict
                 THEN [boot EXCEPT !.phase = "exiting", !.exitCode = 1]
               ELSE IF boot.ip = Len(lines)
                 THEN [boot EXCEPT !.phase = "exiting",
                                   !.exitCode = IF st = "ok" THEN 0 ELSE 1]
               ELSE [boot EXCEPT !.ip = @ + 1,
                                 !.strict = @ \/ c.op = "set -xeou pipefail"]
  /\ UNCHANGED <<props, lines, onExitLines, creationPolicy, signals, provision>>
  /\ UNCHANGED driverVars
  /\ UNCHANGED tierVars

\* trap exitTrap EXIT: cfn-signal reports the exit code, unless it cannot
\* reach CloudFormation ("|| echo 'Failed to send Cloudformation Signal'").
\* boot.trap records whether the cfn-signal command of the trap succeeded.
BootExitTrap ==
  /\ boot.phase = "exiting"
  /\ \E sent \in BOOLEAN :
       /\ signals' =
            IF sent /\ onExitLines # <<>>
              THEN Append(signals, IF boot.exitCode = 0 THEN "success" ELSE "failure")
              ELSE signals
       /\ boot' = [boot EXCEPT !.phase = "exited",
                               !.trap = IF sent THEN "ok" ELSE "failed"]
  /\ UNCHANGED <<props, lines, onExitLines, creationPolicy, status, files, provision>>
  /\ UNCHANGED driverVars
  /\ UNCHANGED tierVars

\* CloudFormation receives the signal it waits for.
ResourceSignalReceived ==
  /\ provision = "waiting"
  /\ Len(signals) >= creationPolicy.count
  /\ provision' = IF signals[1] = "success" THEN "complete" ELSE "failed"
  /\ UNCHANGED <<props, lines, onExitLines, creationPolicy, boot, status, files, signals>>
  /\ UNCHANGED driverVars
  /\ UNCHANGED tierVars

\* The creation policy's timeout passes before the signal arrived.
ResourceSignalTimeout ==
  /\ provision = "waiting"
  /\ provision' = "failed"
  /\ UNCHANGED <<props, lines, onExitLines, creationPolicy, boot, status, files, signals>>
  /\ UNCHANGED driverVars
  /\ UNCHANGED tierVars

\* The test file does not run.
DriverIdle ==
  /\ describeErr = FALSE
  /\ stackOutput = <<>>
  /\ bastionId = EmptyDirectory.bastionId
  /\ renderQueueEndpoints = EmptyDirectory.rq
  /\ secretARNs = EmptyDirectory.cert
  /\ pc = [suite |-> 1, step |-> 1, phase |-> "off"]
  /\ runs = <<>>
  /\ rootErr = FALSE
  /\ suiteErr = [id \in SuiteIds |-> FALSE]
  /\ results = [id \in SuiteIds |-> [s \in AllSteps |-> "none"]]
  /\ faults = 0

InitBoot ==
  /\ props \in BootConfigs
  /\ lines = <<>>
  /\ onExitLines = <<>>
  /\ creationPolicy = [count |-> 0, timeoutMinutes |-> 0]
  /\ boot = [phase |-> "unconfigured", ip |-> 0, strict |-> FALSE, exitCode |-> 0,
             trap |-> "none"]
  /\ status = <<>>
  /\ files = {}
  /\ signals = <<>>
  /\ provision = "none"
  /\ TierIdle
  /\ DriverIdle

NextBoot ==
  \/ ConfigureBastionUserData
  \/ InstanceLaunches
  \/ BootRunsLine
  \/ BootExitTrap
  \/ ResourceSignalReceived
  \/ ResourceSignalTimeout

SpecBoot == InitBoot /\ [][NextBoot]_vars

(***************************************************************************)
(* Properties of the user data                                             *)
(***************************************************************************)
\* configureBastionUserData has built the script.
Built == boot.phase # "unconfigured"

\* The positions of the lines of the script that are the command op arg.
At1(op, arg) == {k \in 1 .. Len(lines) : lines[k] = Cmd(op, arg)}

\* The positions of the lines of the script whose operation is op.
AtOp(op) == {k \in 1 .. Len(lines) : lines[k].op = op}

Min(S) == CHOOSE k \in S : \A j \in S : k <= j

\* Every position of A is before every position of B.
Before(A, B) == \A a \in A : \A b \in B : a < b

\* Lines that download, copy, prepare, run or remove the client installer.
ClientInstallLines ==
  {k \in 1 .. Len(lines) :
     \/ lines[k].arg = "ClientInstaller"
     \/ lines[k].op \in {"chmod +x *.run", "./install_deadline_client.sh"}}

\* The package fetches: setup, client installer, utility, test scripts.
FetchLines == AtOp("aws s3 cp")

\* The generic setup block: fetch of the setup package, unzip, chmod,
\* ./install_jq.sh.
GenericSetupLines ==
  {k \in 1 .. Len(lines) : lines[k].arg = "SetupScripts" /\ lines[k].op # "rm -f"}
  \cup {Min(At1("chmod +x *.sh", ""))}
  \cup At1("./install_jq.sh", "")

\* C7: for installDeadlineClient=false, fetchDocdbCert=true the script holds
\* no client-installer step and exactly one trust-bundle download (wget),
\* after the unzip of the test scripts and before the final chown.
C7_TrustBundleWithoutClient ==
  Built /\ props = [installDeadlineClient |-> FALSE, fetchDocdbCert |-> TRUE] =>
    /\ ClientInstallLines = {}
    /\ Cardinality(AtOp("wget")) = 1
    /\ Cardinality(At1("unzip", "TestingScripts")) = 1
    /\ Cardinality(At1("chown ec2-user.ec2-user -R *", "")) = 1
    /\ Before(At1("unzip", "TestingScripts"), AtOp("wget"))
    /\ Before(AtOp("wget"), At1("chown ec2-user.ec2-user -R *", ""))

\* The script of that configuration ran up to the trust-bundle download,
\* which succeeded.
C7_Witness ==
  /\ Built
  /\ props = [installDeadlineClient |-> FALSE, fetchDocdbCert |-> TRUE]
  /\ \E w \in AtOp("wget") :
       Len(status) >= w /\ status[w] = "ok"

\* C8: with installDeadlineClient=true the installer run comes before the
\* removal of the downloaded installer, and every step of the client-install
\* block (fetch, copy, chmod, run, removal) comes after every step of the
\* generic setup block (fetch, unzip, chmod, ./install_jq.sh).
C8_ClientBlockAfterSetupBlock ==
  Built /\ props.installDeadlineClient =>
    /\ ClientInstallLines # {}
    /\ Before(At1("./install_deadline_client.sh", ""), At1("rm -f", "ClientInstaller"))
    /\ Before(GenericSetupLines, ClientInstallLines)

\* C9: for every configuration the script begins with the strict-mode
\* preamble and the scratch directory, then the fetch of the setup package,
\* its unzip and chmod, then ./install_jq.sh; no package is fetched before
\* the strict-mode preamble.
C9_StrictModeBeforeFetches ==
  Built =>
    /\ At1("set -xeou pipefail", "") = {1}
    /\ Before(At1("set -xeou pipefail", ""), At1("TMPDIR=$(mktemp -d)", ""))
    /\ Before(At1("TMPDIR=$(mktemp -d)", ""), At1("cd ${TMPDIR}", ""))
    /\ Before(At1("cd ${TMPDIR}", ""), At1("aws s3 cp", "SetupScripts"))
    /\ Before(At1("aws s3 cp", "SetupScripts"), At1("unzip", "SetupScripts"))
    /\ Before(At1("unzip", "SetupScripts"), {Min(At1("chmod +x *.sh", ""))})
    /\ Before({Min(At1("chmod +x *.sh", ""))}, At1("./install_jq.sh", ""))
    /\ Before(At1("set -xeou pipefail", ""), FetchLines)

\* C10: a step that fails at boot is the last step that runs, the success
\* signal is never sent after it, and provisioning does not complete.
C10_FailedStepAbortsBoot ==
  \A k \in 1 .. Len(status) :
    status[k] = "failed" =>
      /\ Len(status) = k
      /\ \A i \in 1 .. Len(signals) : signals[i] # "success"
      /\ provision # "complete"

\* Lines that put files into the home directory of ec2-user.
HomeWriteLines ==
  At1("unzip", "UtilScripts") \cup At1("unzip", "TestingScripts") \cup AtOp("wget")

ChownLines == At1("chown ec2-user.ec2-user -R *", "")

ScratchRemovalLines == At1("rm -rf ${TMPDIR}", "")

\* The boot is over, every line of the script ran and succeeded, and so did
\* the cfn-signal command of the exit trap.
EveryStepSucceeded ==
  /\ boot.phase = "exited"
  /\ Len(status) = Len(lines)
  /\ \A k \in 1 .. Len(status) : status[k] = "ok"
  /\ boot.trap = "ok"

\* C11: for every configuration the script ends with the recursive chown
\* (after every unzip and download into the home directory), then the
\* removal of the scratch directory, and the signal is left to the exit
\* trap; a boot in which every step succeeds sends the success signal
\* exactly once, no boot sends more than one signal, the success signal is
\* never sent before the chown ran, and the creation policy expects one
\* signal.
C11_BootEndsWithChownThenSignal ==
  /\ Built =>
       /\ creationPolicy.count = 1
       /\ onExitLines = <<SignalOnExit>>
       /\ ChownLines = {Len(lines) - 1}
       /\ ScratchRemovalLines = {Len(lines)}
       /\ HomeWriteLines # {}
       /\ Before(HomeWriteLines, ChownLines)
  /\ Len(signals) <= 1
  /\ (\E i \in 1 .. Len(signals) : signals[i] = "success") =>
       \A c \in ChownLines \cup ScratchRemovalLines :
         Len(status) >= c /\ status[c] = "ok"
  /\ EveryStepSucceeded => signals = <<"success">>

\* A boot with the trust bundle in which every step succeeded: the signal
\* was sent once and CloudFormation completed the instance.
C11_Witness ==
  /\ EveryStepSucceeded
  /\ props.fetchDocdbCert
  /\ signals = <<"success">>
  /\ provision = "complete"

(***************************************************************************)
(* Discovery over arbitrary stack outputs (SpecDiscover): the root         *)
(* beforeAll applied to every list of up to MaxOutputs outputs with        *)
(* distinct keys, in every order.                                          *)
(***************************************************************************)
\* Outputs a stack may carry: the bastion's id, suite-indexed keys of one
\* and of two digits, keys with the prefix and the suite code but no digit,
\* and keys of other shapes.
DiscoverOutputs ==
  { [key |-> <<"bastionId">>, value |-> "i-1"],
    [key |-> <<"renderQueueEndpointWFS", "1">>, value |-> "rq1.local:4433"],
    [key |-> <<"CertSecretARNWFS", "1">>, value |-> "arn:secret:1"],
    [key |-> <<"renderQueueEndpointWFS", "2">>, value |-> "rq2.local:4433"],
    [key |-> <<"renderQueueEndpointWFS", "1", "2">>, value |-> "rq12.local:4433"],
    [key |-> <<"CertSecretARNWFS", "1", "2">>, value |-> "arn:secret:12"],
    [key |-> <<"renderQueueEndpointWFS", "x">>, value |-> "rqx.local:4433"],
    [key |-> <<"renderQueueEndpointWFS">>, value |-> "rq.local:4433"],
    [key |-> <<"CertSecretARNWFS", "x">>, value |-> "arn:secret:x"],
    [key |-> <<"logGroupName">>, value |-> "/renderfarm/logs"],
    [key |-> <<"bastionId", "Old">>, value |-> "i-0"],
    [key |-> <<"x", "renderQueueEndpointWFS", "1", "y">>, value |-> "rq1y.local:4433"] }

\* Lists of at most n outputs of S, no output twice.
RECURSIVE OutputLists(_, _)
OutputLists(S, n) ==
  IF n = 0 THEN {<<>>}
  ELSE LET shorter == OutputLists(S, n - 1)
       IN shorter \cup
          {Append(l[1], l[2]) :
             l \in {x \in shorter \X S : \A i \in 1 .. Len(x[1]) : x[1][i] # x[2]}}

InitDiscover ==
  /\ describeErr = FALSE
  /\ stackOutput \in OutputLists(DiscoverOutputs, MaxOutputs)
  /\ bastionId = EmptyDirectory.bastionId
  /\ renderQueueEndpoints = EmptyDirectory.rq
  /\ secretARNs = EmptyDirectory.cert
  /\ pc = [suite |-> 1, step |-> 1, phase |-> "root"]
  /\ runs = <<>>
  /\ rootErr = FALSE
  /\ suiteErr = [id \in SuiteIds |-> FALSE]
  /\ results = [id \in SuiteIds |-> [s \in AllSteps |-> "none"]]
  /\ faults = 0
  /\ BootIdle

NextDiscover == BeforeAllDescribeStacks

SpecDiscover == InitDiscover /\ [][NextDiscover]_vars

\* The root beforeAll has run.
Discovered == pc.phase \notin {"off", "root"}

\* What discovery left in the module-level lets.
Directory ==
  [bastionId |-> bastionId, rq |-> renderQueueEndpoints, cert |-> secretARNs]

IsDigits(s) == Len(s) >= 1 /\ \A i \in 1 .. Len(s) : s[i] \in Digits

\* The integer a string of digits denotes.
RECURSIVE DecimalValue(_)
DecimalValue(s) ==
  IF s = <<>> THEN 0
  ELSE 10 * DecimalValue(SubSeq(s, 1, Len(s) - 1)) + DigitValue(s[Len(s)])

\* The key is exactly the bare name of the bastion's id.
IsHostKey(key) == key = <<"bastionId">>

\* The key is exactly prefix, suite code and one or more digits.
WellFormed(key, prefix) ==
  Len(key) >= 2 /\ key[1] = prefix /\ IsDigits(Tail(key))

\* The key is prefix and suite code followed by no digit.
Malformed(key) ==
  /\ key[1] \in {"renderQueueEndpointWFS", "CertSecretARNWFS"}
  /\ Len(key) = 1 \/ key[2] \notin Digits

\* The keys the claims call unrecognised.
Unrecognised(key) ==
  /\ ~IsHostKey(key)
  /\ ~WellFormed(key, "renderQueueEndpointWFS")
  /\ ~WellFormed(key, "CertSecretARNWFS")

\* The outputs are the bastion's id and well-formed suite-indexed keys only.
HostAndWellFormedOnly(outputs) ==
  /\ \E n \in 1 .. Len(outputs) : IsHostKey(outputs[n].key)
  /\ \A n \in 1 .. Len(outputs) : ~Unrecognised(outputs[n].key)

\* The indices at which array arr holds value v.
StoredAt(arr, v) == {i \in DOMAIN arr : arr[i] = v}

\* The outputs without the n-th.
RemoveAt(outputs, n) ==
  SubSeq(outputs, 1, n - 1) \o SubSeq(outputs, n + 1, Len(outputs))

\* The values of the outputs whose key is prefix, suite code and a digit
\* string denoting index i.
ValuesForIndex(outputs, prefix, i) ==
  {outputs[n].value : n \in {m \in 1 .. Len(outputs) :
     /\ WellFormed(outputs[m].key, prefix)
     /\ DecimalValue(Tail(outputs[m].key)) = i}}

\* The indices some well-formed key of the outputs denotes.
IndicesPresent(outputs) ==
  {DecimalValue(Tail(outputs[n].key)) : n \in {m \in 1 .. Len(outputs) :
     \/ WellFormed(outputs[m].key, "renderQueueEndpointWFS")
     \/ WellFormed(outputs[m].key, "CertSecretARNWFS")}}

\* arr[i], undefined beyond the elements assigned
Stored(arr, i) == IF i \in DOMAIN arr THEN arr[i] ELSE Undef

\* C12: when the outputs are the bastion's id and well-formed suite-indexed
\* keys only, discovery holds for every index i present the value of the
\* endpoint key of index i and the value of the secret key of index i, a
\* field whose key is absent is unset, and nothing is stored for an index
\* that no key denotes.
C12_OneContextPerIndexPresent ==
  Discovered /\ HostAndWellFormedOnly(stackOutput) =>
    /\ bastionId # Undef
    /\ \A i \in IndicesPresent(stackOutput) \cup Indices :
         /\ ValuesForIndex(stackOutput, "renderQueueEndpointWFS", i) =
              {Stored(renderQueueEndpoints, i)} \ {Undef}
         /\ ValuesForIndex(stackOutput, "CertSecretARNWFS", i) =
              {Stored(secretARNs, i)} \ {Undef}

\* The array the values of the keys with this prefix are stored in.
ArrayOf(prefix) ==
  IF prefix = "renderQueueEndpointWFS" THEN renderQueueEndpoints ELSE secretARNs

\* C13: the value of a key that is prefix, suite code and one or more
\* digits is stored under the integer value of the whole digit suffix, so
\* the values of two keys with different suffixes are stored under different
\* indices.
C13_IndexIsWholeDigitSuffix ==
  Discovered /\ HostAndWellFormedOnly(stackOutput) =>
    \A n \in 1 .. Len(stackOutput) :
      \A prefix \in {"renderQueueEndpointWFS", "CertSecretARNWFS"} :
        WellFormed(stackOutput[n].key, prefix) =>
          StoredAt(ArrayOf(prefix), stackOutput[n].value) =
            {DecimalValue(Tail(stackOutput[n].key))}

\* Some output's key is prefix and suite code followed by no digit.
MalformedKeyPresent ==
  \E n \in 1 .. Len(stackOutput) : Malformed(stackOutput[n].key)

C17_UnrecognisedKeyChangesNothing ==
  Discovered =>
    \A n \in 1 .. Len(stackOutput) :
      Unrecognised(stackOutput[n].key) =>
        Directory = ForEachOutput(EmptyDirectory, RemoveAt(stackOutput, n))

(***************************************************************************)
(* Properties of discovery and dispatch together (Spec)                    *)
(***************************************************************************)
\* Discovery left test case id without its endpoint or without its secret.
MissingOutput(id) ==
  Discovered /\ (renderQueueEndpoints[id] = Undef \/ secretARNs[id] = Undef)

\* C14: a test case whose endpoint or secret ARN was never produced fails
\* in its setup and neither a setup nor an assertion command is dispatched
\* for it.
C14_MissingOutputStopsSuite ==
  \A id \in SuiteIds :
    MissingOutput(id) =>
      /\ RunsOf(id, SetupSteps \cup TestSteps) = {}
      /\ Past(id, Len(SuiteSteps)) => SuiteFailed(id)

\* C15: a command is dispatched only to a resolved bastion id: when the
\* outputs name no bastion id, or describeStacks failed, no test case
\* dispatches a setup, assertion or teardown command.
C15_NoDispatchWithoutHost ==
  /\ \A i \in 1 .. Len(runs) : runs[i].host # Undef
  /\ Discovered /\ bastionId = Undef => runs = <<>>

\* C18: a run the poller gave up on is TimedOut, never Success; the hook
\* or test that awaited it is recorded as failed once the runner is past it,
\* never as passed, and its command is not dispatched a second time.
C18_TimedOutRunFailsItsStep ==
  \A i \in 1 .. Len(runs) :
    runs[i].state = "TimedOut" =>
      /\ ~AwaitResolves(runs[i])
      /\ results[runs[i].suite][runs[i].step] # "passed"
      /\ Past(runs[i].suite, Rank(runs[i].step)) =>
           /\ results[runs[i].suite][runs[i].step] = "failed"
           /\ runs[i].step \in SetupSteps => suiteErr[runs[i].suite]
      /\ Cardinality(RunsOf(runs[i].suite, {runs[i].step})) = 1

\* The run of an assertion timed out, its test was recorded as failed and
\* the execution went on to its end.
C18_Witness ==
  /\ pc.phase = "done"
  /\ \E i \in 1 .. Len(runs) :
       /\ runs[i].state = "TimedOut"
       /\ runs[i].step \in TestSteps
       /\ results[runs[i].suite][runs[i].step] = "failed"

(***************************************************************************)
(* The outputs of the testing tier (SpecTier): the constructor and         *)
(* configureWorkerFleetTest create the CfnOutputs, the deployed stack      *)
(* returns them to describeStacks, the root beforeAll classifies them.     *)
(***************************************************************************)
\* The literal texts the patterns of the test file look for.
Literals == {"bastionId", "renderQueueEndpointWFS", "CertSecretARNWFS"}

\* The string parts[1] + parts[2] + ... as a key: two parts that together
\* spell a literal of the patterns are that literal.
RECURSIVE KeyAtoms(_)
KeyAtoms(parts) ==
  IF Len(parts) < 2 THEN parts
  ELSE IF (parts[1] \o parts[2]) \in Literals
    THEN <<parts[1] \o parts[2]>> \o KeyAtoms(Tail(Tail(parts)))
  ELSE <<parts[1]>> \o KeyAtoms(Tail(parts))

\* (n).toString(): the decimal digits of n
RECURSIVE DigitsOf(_)
DigitsOf(n) ==
  LET last == CHOOSE d \in Digits : DigitValue(d) = n % 10
  IN IF n < 10 THEN <<last>> ELSE Append(DigitsOf(n \div 10), last)

\* const testSuiteId = 'WF' + (structs.indexOf(workerStruct) + 1).toString()
WorkerSuiteId(i) == <<"WF">> \o DigitsOf(i)

\* Variant: a default branch that falls back to the render queue's hostname.
RenderQueueAddressWithDefault(renderQueue) ==
  CASE renderQueue.port = "4433" -> "renderqueue." \o renderQueue.stackName \o ".local"
    [] OTHER -> renderQueue.hostname

\* configureRenderQueue: the switch on the port
RenderQueueAddress(renderQueue) ==
  CASE renderQueue.port = "8080" -> renderQueue.hostname
    [] renderQueue.port = "4433" -> "renderqueue." \o renderQueue.stackName \o ".local"
    [] OTHER -> Undef

\* configureRenderQueue: new CfnOutput(this, 'renderQueueEndpoint' + testSuiteId, ...)
configureRenderQueue(testSuiteId, renderQueue) ==
  <<[key |-> KeyAtoms(<<"renderQueueEndpoint">> \o testSuiteId),
     value |-> RenderQueueAddress(renderQueue) \o ":" \o renderQueue.port]>>

\* configureCert: if (cert) new CfnOutput(this, 'certSecretARN' + testSuiteId, ...)
configureCert(testSuiteId, cert) ==
  IF cert # Undef
    THEN <<[key |-> KeyAtoms(<<"certSecretARN">> \o testSuiteId), value |-> cert]>>
    ELSE <<>>

\* structs.forEach of configureWorkerFleetTest, from the i-th struct on
RECURSIVE WorkerFleetOutputs(_, _)
WorkerFleetOutputs(ss, i) ==
  IF i > Len(ss) THEN <<>>
  ELSE configureRenderQueue(WorkerSuiteId(i), ss[i].renderQueue)
       \o configureCert(WorkerSuiteId(i), ss[i].cert)
       \o WorkerFleetOutputs(ss, i + 1)

\* Render queues on the HTTP port, on the HTTPS port and on another port.
RenderQueues ==
  [port : {"8080", "4433", "443"}, hostname : {"lb-1.elb.amazonaws.com"},
   stackName : {"RFDKInteg-WF-ComponentTier"}]

\* WorkerStruct: its render queue and its certificate, if it has one; the
\* certificate is known by the ARN of its secret.
WorkerStructs ==
  [renderQueue : RenderQueues, cert : {Undef, "arn:aws:secretsmanager:cert"}]

\* Lists of one to n worker structs.
RECURSIVE StructLists(_)
StructLists(n) ==
  IF n = 0 THEN {}
  ELSE {<<w>> : w \in WorkerStructs}
       \cup {Append(l, w) : l \in StructLists(n - 1), w \in WorkerStructs}

\* constructor: new CfnOutput(this, 'bastionId', ...)
TestingTierConstructor ==
  /\ tier = "none"
  /\ cfnOutputs' = Append(cfnOutputs,
                          [key |-> KeyAtoms(<<"bastionId">>), value |-> "i-1"])
  /\ tier' = "constructed"
  /\ UNCHANGED <<structs, props, lines, onExitLines, creationPolicy, boot, status,
                 files, signals, provision>>
  /\ UNCHANGED driverVars

\* public configureWorkerFleetTest(structs), with its call of
\* configureBastionUserData
ConfigureWorkerFleetTest ==
  /\ tier = "constructed"
  /\ cfnOutputs' = cfnOutputs \o WorkerFleetOutputs(structs, 1)
  /\ LET p == [installDeadlineClient |-> TRUE, fetchDocdbCert |-> FALSE]
     IN /\ props' = p
        /\ creationPolicy' = [count |-> 1, timeoutMinutes |-> 5]
        /\ lines' = lines \o S3Downloads(p) \o userDataCommands(p)
        /\ onExitLines' = Append(onExitLines, SignalOnExit)
        /\ boot' = [boot EXCEPT !.phase = "configured"]
  /\ tier' = "configured"
  /\ UNCHANGED <<structs, status, files, signals, provision>>
  /\ UNCHANGED driverVars

\* The stack is deployed; describeStacks returns its outputs to the test file.
StackDeployed ==
  /\ tier = "configured"
  /\ tier' = "deployed"
  /\ stackOutput' = cfnOutputs
  /\ pc' = [pc EXCEPT !.phase = "root"]
  /\ UNCHANGED <<describeErr, bastionId, renderQueueEndpoints, secretARNs, runs,
                 rootErr, suiteErr, results, faults>>
  /\ UNCHANGED bootVars
  /\ UNCHANGED <<structs, cfnOutputs>>

InitTier ==
  /\ structs \in StructLists(MaxStructs)
  /\ cfnOutputs = <<>>
  /\ tier = "none"
  /\ props = [installDeadlineClient |-> FALSE, fetchDocdbCert |-> FALSE]
  /\ lines = <<>>
  /\ onExitLines = <<>>
  /\ creationPolicy = [count |-> 0, timeoutMinutes |-> 0]
  /\ boot = [phase |-> "unconfigured", ip |-> 0, strict |-> FALSE, exitCode |-> 0,
             trap |-> "none"]
  /\ status = <<>>
  /\ files = {}
  /\ signals = <<>>
  /\ provision = "none"
  /\ DriverIdle

NextTier ==
  \/ TestingTierConstructor
  \/ ConfigureWorkerFleetTest
  \/ StackDeployed
  \/ BeforeAllDescribeStacks

SpecTier == InitTier /\ [][NextTier]_vars

\* C19: for every worker struct i with a certificate, the endpoint key and
\* the certificate key the tier creates for it are classified by the
\* patterns of the test file under index i: after discovery
\* renderQueueEndpoints[i] is the endpoint the tier put out and
\* secretARNs[i] the ARN of the certificate's secret.
C19_TierKeysRoundTrip ==
  tier = "deployed" /\ Discovered =>
    /\ bastionId = "i-1"
    /\ \A i \in 1 .. Len(structs) :
         structs[i].cert # Undef =>
           /\ renderQueueEndpoints[i] =
                configureRenderQueue(WorkerSuiteId(i), structs[i].renderQueue)[1].value
           /\ secretARNs[i] = structs[i].cert

\* The script each hook and test invokes, by the claims' account.
ScriptOf(step) ==
  CASE step = "fetch-cert" -> "./utilScripts/fetch-cert.sh"
    [] step = "configure-deadline" -> "./utilScripts/configure-deadline.sh"
    [] step = "WFS-1" -> "./testScripts/WFS-report-workers.sh"
    [] step = "WFS-2" -> "./testScripts/WFS-report-worker-sets.sh"
    [] step \in {"WFS-3", "WFS-4"} -> "./testScripts/WFS-submit-jobs-to-sets.sh"
    [] step = "cleanup-cert" -> "./utilScripts/cleanup-cert.sh"

\* C20: every dispatch targets the bastion id discovery resolved; its commands
\* are 'sudo -i', 'su - ec2-user >/dev/null', 'cd ~ec2-user' and then one
\* script invocation, that of its hook or test; fetch-cert.sh of test case
\* id is given the secret ARN the outputs hold for index id and
\* configure-deadline.sh the endpoint they hold for index id.
C20_DispatchShape ==
  \A i \in 1 .. Len(runs) :
    LET run == runs[i]
        last == run.commands[Len(run.commands)]
    IN /\ run.host = bastionId
       /\ run.host # Undef
       /\ Len(run.commands) = 4
       /\ SubSeq(run.commands, 1, 3) =
            <<Sh("sudo -i"), Sh("su - ec2-user >/dev/null"), Sh("cd ~ec2-user")>>
       /\ last.script = ScriptOf(run.step)
       /\ run.step = "fetch-cert" =>
            /\ Len(last.args) = 2
            /\ {last.args[2]} = ValuesForIndex(stackOutput, "CertSecretARNWFS", run.suite)
       /\ run.step = "configure-deadline" =>
            /\ Len(last.args) = 1
            /\ {last.args[1]} \ {Undef} =
                 ValuesForIndex(stackOutput, "renderQueueEndpointWFS", run.suite)

\* The endpoint the claims give for a render queue.
ClaimedEndpoint(renderQueue) ==
  IF renderQueue.port = "8080" THEN renderQueue.hostname \o ":8080"
  ELSE IF renderQueue.port = "4433"
    THEN "renderqueue." \o renderQueue.stackName \o ".local:4433"
  ELSE "undefined:" \o renderQueue.port

\* The positions of the stack's outputs named 'renderQueueEndpoint' + 'WF' + i.
EndpointOutputs(i) ==
  {n \in 1 .. Len(cfnOutputs) :
     cfnOutputs[n].key = <<"renderQueueEndpoint", "WF">> \o DigitsOf(i)}

\* C21: for every worker struct configureRenderQueue creates one endpoint
\* output '<address>:<port>': the render queue's hostname for port 8080,
\* 'renderqueue.<stackName>.local' for port 4433, and for any other port
\* the output is still created, with the address undefined; the
\* configuration of the tier completes without an error.
C21_EndpointAddressByPort ==
  tier \in {"configured", "deployed"} =>
    \A i \in 1 .. Len(structs) :
      /\ Cardinality(EndpointOutputs(i)) = 1
      /\ \A n \in EndpointOutputs(i) :
           cfnOutputs[n].value = ClaimedEndpoint(structs[i].renderQueue)

\* The tier was configured with a render queue on port 4433 and one on a
\* port that is neither 8080 nor 4433; the output of the latter is there.
C21_Witness ==
  /\ tier = "configured"
  /\ \E i \in 1 .. Len(structs) : structs[i].renderQueue.port = "4433"
  /\ \E i \in 1 .. Len(structs) :
       /\ structs[i].renderQueue.port = "443"
       /\ \E n \in EndpointOutputs(i) : cfnOutputs[n].value = "undefined:443"

====
